---------------------------- MODULE Spec2Model ----------------------------
(***************************************************************************)
(* A model of the tree transformer of figmaMCP (src/transform.py) and of   *)
(* its one call site (src/figma_tools.py, get_figma_data).                 *)
(*                                                                         *)
(* JSON / Python values are tagged records:                                *)
(*   [t |-> "null"]                     None                               *)
(*   [t |-> "bool", b |-> TRUE]         True / False                       *)
(*   [t |-> "num",  n |-> 1, d |-> 2]   the number n/d (d >= 1)            *)
(*   [t |-> "str",  s |-> "SOLID"]      a string                           *)
(*   [t |-> "list", o |-> id, l |-> s]  a list object, s its items         *)
(*   [t |-> "map",  o |-> id, m |-> f]  a dict object, f its key/values    *)
(*   [t |-> "raise", e |-> "KeyError"]  the call raised instead            *)
(*   [t |-> "absent"]                   a style check that emits no key    *)
(* A list or dict is a mutable object: o is its identity.  An object of    *)
(* the parsed input carries the path that leads to it from the root; an    *)
(* object built by transform.py carries the empty path.  Copying a         *)
(* reference copies the value together with its identity.                  *)
(*                                                                         *)
(* Not modelled: the insertion order of dict keys, and the representation  *)
(* error of binary floating point (numbers are exact rationals).           *)
(***************************************************************************)
EXTENDS Integers, Sequences, FiniteSets, TLC

VARIABLES node, result, pc

vars == <<node, result, pc>>

---------------------------------------------------------------------------
(* Bounds of the model. *)

\* longest `children` sequence of an input node
MaxChildren == 2
\* deepest input tree (levels of nodes)
MaxDepth == 3
\* longest `effects` sequence of an input node
MaxEffects == 2
\* largest denominator of a colour channel n/d
MaxDen == 6

---------------------------------------------------------------------------
(* Values. *)

Null == [t |-> "null"]
Bool(b) == [t |-> "bool", b |-> b]
Num(n, d) == [t |-> "num", n |-> n, d |-> d]
Whole(n) == Num(n, 1)
Str(s) == [t |-> "str", s |-> s]
List(o, l) == [t |-> "list", o |-> o, l |-> l]
Map(o, m) == [t |-> "map", o |-> o, m |-> m]
Raise(e) == [t |-> "raise", e |-> e]
Absent == [t |-> "absent"]

\* the identity of an object that transform.py builds
Fresh == << >>
NewMap(m) == Map(Fresh, m)
NewList(l) == List(Fresh, l)
EmptyDict == NewMap(<< >>)

IsDict(v) == v.t = "map"
IsList(v) == v.t = "list"
IsRaise(v) == v.t = "raise"
IsNone(v) == v.t = "null"

\* k in d
Has(d, k) == k \in DOMAIN d.m
\* d.get(k, dflt)
Get(d, k, dflt) == IF k \in DOMAIN d.m THEN d.m[k] ELSE dflt
\* the key k of a mapping under construction, unless the check found nothing
Put(k, v) == IF v.t = "absent" THEN << >> ELSE (k :> v)

\* bool(v)
Truthy(v) ==
  CASE v.t = "null" -> FALSE
    [] v.t = "bool" -> v.b
    [] v.t = "num"  -> v.n # 0
    [] v.t = "str"  -> v.s # ""
    [] v.t = "list" -> Len(v.l) > 0
    [] v.t = "map"  -> DOMAIN v.m # {}

\* int(n/d) in place of round(n/d): the fraction is cut off
RoundDown(n, d) == n \div d

\* round(n/d): to the nearest integer, a tie to the even neighbour
RoundHalfEven(n, d) ==
  LET q == n \div d
      r == n % d
  IN  IF 2 * r < d THEN q
      ELSE IF 2 * r > d THEN q + 1
      ELSE IF q % 2 = 0 THEN q ELSE q + 1

---------------------------------------------------------------------------
(* extract_layout_info *)

BBoxKeys == {"x", "y", "width", "height"}

DirectLayoutKeys ==
  {"layoutMode", "primaryAxisAlignItems", "counterAxisAlignItems",
   "itemSpacing", "paddingLeft", "paddingRight", "paddingTop",
   "paddingBottom", "layoutAlign", "layoutGrow", "constraints",
   "clipsContent"}

LayoutKeys == BBoxKeys \cup DirectLayoutKeys

\* node.get("absoluteBoundingBox", {})
BoundingBox(n) == Get(n, "absoluteBoundingBox", EmptyDict)

\* the value the dict literal holds under key k
LayoutSource(n, k) ==
  IF k \in BBoxKeys THEN Get(BoundingBox(n), k, Null) ELSE Get(n, k, Null)

\* `if v` in place of `if v is not None`: 0, false and "" are dropped too
DropFalsy(layout) ==
  NewMap([k \in {j \in DOMAIN layout : Truthy(layout[j])} |-> layout[k]])

\* {k: v for k, v in layout.items() if v is not None}
DropNone(layout) ==
  NewMap([k \in {j \in DOMAIN layout : ~IsNone(layout[j])} |-> layout[k]])

extract_layout_info(n) ==
  IF ~IsDict(n) THEN Raise("AttributeError")
  ELSE IF ~IsDict(BoundingBox(n)) THEN Raise("AttributeError")
  ELSE DropNone([k \in LayoutKeys |-> LayoutSource(n, k)])

---------------------------------------------------------------------------
(* extract_style_info *)

TypographyKeys ==
  {"fontName", "fontSize", "lineHeightPx", "letterSpacing",
   "textAlignHorizontal", "textAlignVertical"}

\* isinstance(node.get(key), list) and node[key]
NonEmptyList(n, key) ==
  IsList(Get(n, key, Null)) /\ Len(Get(n, key, Null).l) > 0

\* the first SOLID entry in place of the first entry
FirstSolidPaint(paints) ==
  LET solid == {i \in 1..Len(paints.l) :
                  /\ IsDict(paints.l[i])
                  /\ Get(paints.l[i], "type", Null) = Str("SOLID")}
  IN  IF solid = {} THEN paints.l[1]
      ELSE paints.l[CHOOSE i \in solid : \A j \in solid : i <= j]

\* node["fills"][0], node["strokes"][0]
FirstPaint(paints) == paints.l[1]

\* round(color[c] * 255)
Channel(color, c) ==
  IF ~IsDict(color) THEN Raise("TypeError")
  ELSE IF ~Has(color, c) THEN Raise("KeyError")
  ELSE LET x == color.m[c]
       IN  CASE x.t = "num"  -> Whole(RoundHalfEven(x.n * 255, x.d))
             [] x.t = "bool" -> Whole(IF x.b THEN 255 ELSE 0)
             [] OTHER        -> Raise("TypeError")

\* paint.get("type") == "SOLID" and "color" in paint
IsSolid(paint) ==
  /\ Get(paint, "type", Null).t = "str"
  /\ Get(paint, "type", Null).s = "SOLID"
  /\ Has(paint, "color")

\* the {r, g, b, a} mapping of a paint, Absent when it is not a solid colour
ResolveColor(paint) ==
  IF ~IsDict(paint) THEN Raise("AttributeError")
  ELSE IF ~IsSolid(paint) THEN Absent
  ELSE LET color == paint.m["color"]
           r == Channel(color, "r")
           g == Channel(color, "g")
           b == Channel(color, "b")
       IN  IF IsRaise(r) THEN r
           ELSE IF IsRaise(g) THEN g
           ELSE IF IsRaise(b) THEN b
           ELSE NewMap([r |-> r, g |-> g, b |-> b,
                        a |-> Get(paint, "opacity", Whole(1))])

\* # Fill
FillCheck(n) ==
  IF NonEmptyList(n, "fills")
  THEN ResolveColor(FirstPaint(n.m["fills"]))
  ELSE Absent

\* # Stroke: the colour
StrokeCheck(n) ==
  IF NonEmptyList(n, "strokes")
  THEN ResolveColor(FirstPaint(n.m["strokes"]))
  ELSE Absent

\* # Stroke: the weight
StrokeWeightCheck(n) ==
  IF NonEmptyList(n, "strokes") /\ Has(n, "strokeWeight")
  THEN n.m["strokeWeight"]
  ELSE Absent

\* # Typography
TypographyCheck(n) ==
  [k \in TypographyKeys \cap DOMAIN n.m |-> n.m[k]]

\* e.get("visible") in place of e.get("visible", True)
IsVisibleNoDefault(e) == Truthy(Get(e, "visible", Null))

\* e.get("visible", True)
IsVisible(e) == Truthy(Get(e, "visible", Bool(TRUE)))

\* # Effects
EffectsCheck(n) ==
  IF NonEmptyList(n, "effects")
  THEN LET effects == n.m["effects"].l
       IN  IF \E i \in 1..Len(effects) : ~IsDict(effects[i])
           THEN Raise("AttributeError")
           ELSE LET visible == SelectSeq(effects, IsVisible)
                IN  IF Len(visible) > 0 THEN NewList(visible) ELSE Absent
  ELSE Absent

extract_style_info(n) ==
  IF ~IsDict(n) THEN Raise("AttributeError")
  ELSE
  LET fill == FillCheck(n)
      stroke == StrokeCheck(n)
      effects == EffectsCheck(n)
  IN  IF IsRaise(fill) THEN fill
      ELSE IF IsRaise(stroke) THEN stroke
      ELSE IF IsRaise(effects) THEN effects
      ELSE NewMap(Put("fill", fill) @@ Put("stroke", stroke)
                  @@ Put("strokeWeight", StrokeWeightCheck(n))
                  @@ TypographyCheck(n) @@ Put("effects", effects))

---------------------------------------------------------------------------
(* prune_node, transform_node_tree *)

ignored ==
  {"id", "pluginData", "sharedPluginData", "componentId",
   "absoluteRenderBounds", "isMask", "isMaskOutline", "transitionNodeID",
   "visible", "layoutGrids", "styles", "characterStyleOverrides",
   "styleOverrideTable", "overrideValues", "componentPropertyReferences"}

\* dict(node) in place of the filtering comprehension
prune_node_keeps_all(n) == NewMap(n.m)

prune_node(n) ==
  NewMap([k \in DOMAIN n.m \ ignored |-> n.m[k]])

\* the first exception a sequence of results holds, Absent when none does
FirstRaise(s) ==
  IF \E i \in 1..Len(s) : IsRaise(s[i])
  THEN s[CHOOSE i \in 1..Len(s) :
           IsRaise(s[i]) /\ \A j \in 1..(i - 1) : ~IsRaise(s[j])]
  ELSE Absent

\* the children in reverse order
ChildListReversed(kids) ==
  NewList([i \in 1..Len(kids) |-> kids[Len(kids) + 1 - i]])

\* [transform_node_tree(c) for c in children], given each child's result
ChildList(kids) == NewList(kids)

RECURSIVE transform_node_tree(_)
transform_node_tree(n) ==
  IF ~IsDict(n) THEN EmptyDict
  ELSE
    LET transformed == prune_node(n)
        layout == extract_layout_info(n)
        styles == extract_style_info(n)
        children == Get(n, "children", NewList(<< >>))
    IN  IF IsRaise(layout) THEN layout
        ELSE IF IsRaise(styles) THEN styles
        ELSE
          LET own == ("styles" :> styles) @@ ("layout" :> layout)
                       @@ transformed.m
          IN  IF IsList(children) /\ Truthy(children)
              THEN LET kids == [i \in 1..Len(children.l) |->
                                  transform_node_tree(children.l[i])]
                   IN  IF IsRaise(FirstRaise(kids)) THEN FirstRaise(kids)
                       ELSE NewMap(("children" :> ChildList(kids)) @@ own)
              ELSE NewMap(own)

---------------------------------------------------------------------------
(* The parsed API response: the Nodes a call can be given. *)

\* An object as a literal writes it; Parsed gives each its identity.
D(m) == Map(Fresh, m)
L(l) == List(Fresh, l)

\* res.json(): every mapping and sequence of the response is an object of
\* its own, named here by the path from the root to it
RECURSIVE Parsed(_, _)
Parsed(v, path) ==
  CASE v.t = "map" ->
         Map(path, [k \in DOMAIN v.m |-> Parsed(v.m[k], Append(path, k))])
    [] v.t = "list" ->
         List(path, [i \in 1..Len(v.l) |->
                       Parsed(v.l[i], Append(path, ToString(i)))])
    [] OTHER -> v

\* colour channels n/d in lowest terms, 0 <= n/d <= 1 + 1/d
Channels ==
  {Num(n, d) : <<n, d>> \in
     {q \in (0..(MaxDen + 1)) \X (1..MaxDen) :
        /\ q[1] <= q[2] + 1
        /\ \A e \in 2..q[2] : ~(q[1] % e = 0 /\ q[2] % e = 0)}}

Color(r, g, b) == D([r |-> r, g |-> g, b |-> b])

Colors ==
  {Color(c, Whole(0), Num(1, 2)) : c \in Channels}
    \cup {Color(Whole(1), c, Whole(0)) : c \in Channels}
    \cup {Color(Num(1, 2), Whole(1), c) : c \in Channels}

\* a paint of the given type and colour, with or without an opacity
Paint(type, color, opacity) ==
  D(("type" :> Str(type)) @@ ("color" :> color) @@ Put("opacity", opacity))

Opacities == {Absent, Num(1, 2), Whole(0)}

SolidPaints == {Paint("SOLID", c, a) : c \in Colors, a \in Opacities}

Black == Paint("SOLID", Color(Whole(0), Whole(0), Whole(0)), Whole(1))
Gradient == D([type |-> Str("GRADIENT_LINEAR")])

\* paints that are not a solid colour, or not well formed
OddPaints ==
  {Gradient,
   Paint("IMAGE", Color(Whole(1), Whole(0), Whole(0)), Absent),
   D([type |-> Str("SOLID")]),
   D([color |-> Color(Whole(1), Whole(0), Whole(0))]),
   D([type |-> Null, color |-> Color(Whole(1), Whole(0), Whole(0))]),
   D([type |-> Str("SOLID"), color |-> D([r |-> Whole(1), g |-> Whole(0)])]),
   D([type |-> Str("SOLID"), color |-> D([g |-> Whole(1), b |-> Whole(0)])]),
   D([type |-> Str("SOLID"), color |-> Null]),
   D([type |-> Str("SOLID"), color |-> Str("#fff")]),
   D([type |-> Str("SOLID"), color |-> Color(Whole(1), Null, Whole(0))]),
   D([type |-> Str("SOLID"), color |-> Color(Whole(1), Whole(0), Str("0"))]),
   D([type |-> Str("SOLID"),
      color |-> Color(Bool(TRUE), Bool(FALSE), Whole(0))]),
   Str("SOLID"),
   Null}

\* the values a `fills` or `strokes` key can hold
PaintValues ==
  {L(<<p>>) : p \in SolidPaints \cup OddPaints}
    \cup {L(<<p, q>>) : p \in OddPaints \cup {Black}, q \in {Black, Gradient}}
    \cup {L(<< >>), Null, Str("none"), D([type |-> Str("SOLID")])}

FillNodes == {D([fills |-> v]) : v \in PaintValues}

StrokeWeights == {Absent, Whole(2), Null}

StrokeNodes ==
  {D(("strokes" :> v) @@ Put("strokeWeight", w)) :
     v \in PaintValues, w \in StrokeWeights}
    \cup {D(Put("strokeWeight", w)) : w \in StrokeWeights}

\* the value a typography key holds when the Node carries it
TypographyValue(k) ==
  CASE k = "fontName"      -> D([family |-> Str("Inter")])
    [] k = "fontSize"      -> Whole(14)
    [] k = "lineHeightPx"  -> Num(33, 2)
    [] k = "letterSpacing" -> Null
    [] OTHER               -> Str("CENTER")

TypographyNodes ==
  {D([k \in S |-> TypographyValue(k)]) : S \in SUBSET TypographyKeys}

Effect(type, visible) ==
  D(("type" :> Str(type)) @@ Put("visible", visible))

EffectEntries ==
  {Effect("DROP_SHADOW", Bool(FALSE)), Effect("BLUR", Bool(TRUE)),
   Effect("INNER_SHADOW", Absent), Effect("BLUR", Null),
   Effect("BLUR", Whole(0)), Effect("BLUR", Whole(2)),
   Effect("BLUR", Str("")), Effect("BLUR", Str("no")),
   Str("BLUR")}

RECURSIVE SeqsUpTo(_, _)
\* the sequences over S of length at most n
SeqsUpTo(S, n) ==
  IF n = 0 THEN {<< >>}
  ELSE LET shorter == SeqsUpTo(S, n - 1)
       IN  shorter \cup {Append(s, x) : s \in shorter, x \in S}

EffectsNodes ==
  {D([effects |-> L(s)]) : s \in SeqsUpTo(EffectEntries, MaxEffects)}
    \cup {D([effects |-> Null]), D([effects |-> Effect("BLUR", Bool(TRUE))])}

\* a Node with a fill, a stroke, typography and effects at once
StyledNodes ==
  {D([fills |-> L(<<f>>), strokes |-> L(<<s>>), strokeWeight |-> Whole(2),
      fontSize |-> Whole(14), effects |-> L(<<e>>)]) :
     f \in {Black, Gradient, Null},
     s \in {Black, Gradient, D([type |-> Str("SOLID"), color |-> Null])},
     e \in {Effect("BLUR", Bool(TRUE)), Effect("BLUR", Bool(FALSE)),
            Str("BLUR")}}

BoxValues == {Absent, Null, Whole(0), Num(21, 2)}

\* the values an `absoluteBoundingBox` key can hold
BoundingBoxes ==
  {D(Put("x", x) @@ Put("y", y) @@ Put("width", w) @@ Put("height", h)) :
     x \in BoxValues, y \in BoxValues, w \in BoxValues, h \in BoxValues}
    \cup {Null, Str("0,0,100,50"), L(<< >>)}

FullBox ==
  D([x |-> Whole(0), y |-> Whole(0), width |-> Whole(100),
     height |-> Whole(50)])

LayoutValues ==
  {Null, Whole(0), Bool(FALSE), Str("HORIZONTAL"),
   D([horizontal |-> Str("LEFT"), vertical |-> Str("TOP")])}

LayoutNodes ==
  {D([absoluteBoundingBox |-> b]) : b \in BoundingBoxes}
    \cup {D((k :> v) @@ Put("absoluteBoundingBox", b)) :
            k \in DirectLayoutKeys, v \in LayoutValues,
            b \in {Absent, FullBox}}
    \cup {D([layoutMode |-> v, itemSpacing |-> w]) :
            v \in LayoutValues, w \in LayoutValues}
    \cup {D(<< >>)}

\* a Node that carries every key of the ignore set beside its own
Cluttered(m) ==
  D(m @@ [k \in ignored |->
            IF k \in {"isMask", "isMaskOutline", "visible"} THEN Bool(TRUE)
            ELSE IF k \in {"id", "componentId", "transitionNodeID"}
                 THEN Str("1:2")
            ELSE D([fill |-> Str("S:1")])])

TextLeaf ==
  D([id |-> Str("1:2"), type |-> Str("TEXT"), fontSize |-> Whole(14)])

LeafNodes ==
  {TextLeaf,
   Cluttered([type |-> Str("RECTANGLE"), children |-> L(<< >>),
              constraints |-> D([horizontal |-> Str("LEFT")])])}

\* what a `children` sequence can hold beside Nodes with children
ChildLeaves == LeafNodes \cup {Str("stray")}

Frame(kids) ==
  D([id |-> Str("1:1"), type |-> Str("FRAME"), absoluteBoundingBox |-> FullBox,
     fills |-> L(<<Black>>), children |-> L(kids)])

\* the `children` sequences of leaves: at most MaxChildren long, not empty
LeafSeqs == SeqsUpTo(ChildLeaves, MaxChildren) \ {<< >>}

\* the `children` sequences with one child, out of T, that has children of
\* its own: it stands at any place among leaves of the first kind
ChildSeqs(T) ==
  LeafSeqs \cup
    UNION {{[s EXCEPT ![i] = c] : i \in 1..Len(s), c \in T} :
             s \in SeqsUpTo({TextLeaf}, MaxChildren) \ {<< >>}}

RECURSIVE Frames(_)
\* the Nodes with children, in trees of at most d levels
Frames(d) ==
  IF d <= 1 THEN {} ELSE {Frame(s) : s \in ChildSeqs(Frames(d - 1))}

\* the trees of at most d levels
Trees(d) == ChildLeaves \cup Frames(d)

Nodes ==
  FillNodes \cup StrokeNodes \cup TypographyNodes \cup EffectsNodes
    \cup StyledNodes \cup LayoutNodes \cup Trees(MaxDepth)
    \cup {Null, L(<< >>)}

---------------------------------------------------------------------------
(* The calls. *)

Init ==
  /\ node \in {Parsed(n, <<"node">>) : n \in Nodes}
  /\ result = Absent
  /\ pc = "start"

\* transformed = transform_node_tree(node)
CallTransform ==
  /\ pc = "start"
  /\ result' = transform_node_tree(node)
  /\ pc' = "tree"
  /\ UNCHANGED node

\* transformed["layout"] = extract_layout_info(node)
CallLayout ==
  /\ pc = "start"
  /\ result' = extract_layout_info(node)
  /\ pc' = "layout"
  /\ UNCHANGED node

\* transformed["styles"] = extract_style_info(node)
CallStyle ==
  /\ pc = "start"
  /\ result' = extract_style_info(node)
  /\ pc' = "styles"
  /\ UNCHANGED node

Next == CallTransform \/ CallLayout \/ CallStyle

Spec == Init /\ [][Next]_vars

---------------------------------------------------------------------------
(* Vocabulary of the properties. *)

\* the call returned a mapping (it did not raise)
Returned == IsDict(node) /\ IsDict(result)

\* a Node with no `children` key, or with `children` the empty sequence
IsLeaf(n) ==
  \/ ~Has(n, "children")
  \/ IsList(n.m["children"]) /\ Len(n.m["children"].l) = 0

\* the items of the `children` sequence of a mapping, none when it has none
Kids(n) ==
  IF Has(n, "children") /\ IsList(n.m["children"])
  THEN n.m["children"].l
  ELSE << >>

RECURSIVE MappingTree(_)
\* every element of every `children` sequence of the tree is a mapping
MappingTree(n) ==
  \A i \in 1..Len(Kids(n)) : IsDict(Kids(n)[i]) /\ MappingTree(Kids(n)[i])

Max(S) == CHOOSE x \in S : \A y \in S : y <= x

RECURSIVE Depth(_)
\* the number of levels of a tree of mappings
Depth(n) ==
  IF Len(Kids(n)) = 0 THEN 1
  ELSE 1 + Max({Depth(Kids(n)[i]) : i \in 1..Len(Kids(n))})

RECURSIVE Identities(_)
\* the identities of the mappings and sequences reachable in a value
Identities(v) ==
  CASE v.t = "map" ->
         {v.o} \cup UNION {Identities(v.m[k]) : k \in DOMAIN v.m}
    [] v.t = "list" ->
         {v.o} \cup UNION {Identities(v.l[i]) : i \in 1..Len(v.l)}
    [] OTHER -> {}

\* the first entry of `fills` or `strokes`, when it is a mapping
HasFirstPaint(n, key) == NonEmptyList(n, key) /\ IsDict(n.m[key].l[1])

\* a paint of type SOLID with a colour whose channels lie in 0.0 to 1.0
InRange(x) == x.t = "num" /\ 0 <= x.n /\ x.n <= x.d
SolidInRange(p) ==
  /\ Get(p, "type", Null) = Str("SOLID")
  /\ Has(p, "color") /\ IsDict(p.m["color"])
  /\ \A c \in {"r", "g", "b"} :
       Has(p.m["color"], c) /\ InRange(p.m["color"].m[c])

\* k is an integer in 0..255 nearest to 255 * x
Nearest255(k, x) ==
  /\ k.t = "num" /\ k.d = 1 /\ k.n \in 0..255
  /\ 2 * (k.n * x.d - 255 * x.n) <= x.d
  /\ 2 * (255 * x.n - k.n * x.d) <= x.d

\* the {r, g, b, a} the claim expects of paint p is what `out` holds
RgbaOf(out, p) ==
  /\ IsDict(out) /\ DOMAIN out.m = {"r", "g", "b", "a"}
  /\ \A c \in {"r", "g", "b"} : Nearest255(out.m[c], p.m["color"].m[c])
  /\ out.m["a"] = (IF Has(p, "opacity") THEN p.m["opacity"] ELSE Whole(1))

---------------------------------------------------------------------------
(* The properties. *)

\* C1: a leaf Node (no `children` key, or `children` the empty sequence)
\* gives a TransformedNode with no `children` key.
C1_LeafHasNoChildrenKey ==
  (pc = "tree" /\ Returned /\ IsLeaf(node)) => ~Has(result, "children")

\* C2: a Node that carries `strokeWeight` gets `strokeWeight` emitted with
\* the same value, whatever `strokes` is.
C2_StrokeWeightAlwaysEmitted ==
  (pc = "styles" /\ Returned /\ Has(node, "strokeWeight")) =>
    /\ Has(result, "strokeWeight")
    /\ result.m["strokeWeight"] = node.m["strokeWeight"]

\* C3: transform_node_tree never fails on a mapping Node: it returns a
\* TransformedNode, whatever the nested fields hold.
C3_TransformNeverFails ==
  (pc = "tree" /\ IsDict(node)) => IsDict(result)

\* C4: no mapping or sequence reachable in the output of transform_node_tree
\* is an object of the input tree.
C4_NoSharedObjects ==
  (pc = "tree" /\ Returned) => Identities(result) \cap Identities(node) = {}

RECURSIVE ShapeKept(_, _)
\* at every node with a non-empty `children`, the output has as many
\* children, the i-th being the transform of the i-th input child
ShapeKept(in, out) ==
  NonEmptyList(in, "children") =>
    /\ Has(out, "children") /\ IsList(out.m["children"])
    /\ Len(Kids(out)) = Len(Kids(in))
    /\ \A i \in 1..Len(Kids(in)) :
         /\ Kids(out)[i] = transform_node_tree(Kids(in)[i])
         /\ Get(Kids(out)[i], "type", Null) = Get(Kids(in)[i], "type", Null)
         /\ ShapeKept(Kids(in)[i], Kids(out)[i])

\* C5: for an input tree whose `children` elements are all mappings, the
\* output tree has the depth of the input, and at every node with children
\* the output children are the transforms of the input children, in order.
C5_ShapePreserved ==
  (pc = "tree" /\ Returned /\ MappingTree(node)) =>
    Depth(result) = Depth(node) /\ ShapeKept(node, result)

C5_Witness ==
  /\ pc = "tree" /\ Returned /\ MappingTree(node)
  /\ Depth(node) = MaxDepth
  /\ Len(Kids(node)) >= 2
  /\ Kids(result)[1] # Kids(result)[2]

\* the ignore-set keys the claim lists
DroppedKeys ==
  {"id", "pluginData", "sharedPluginData", "componentId",
   "absoluteRenderBounds", "isMask", "isMaskOutline", "transitionNodeID",
   "visible", "layoutGrids", "characterStyleOverrides", "styleOverrideTable",
   "overrideValues", "componentPropertyReferences"}

RECURSIVE NodesWellFormed(_, _)
\* every node of the output has `layout` and `styles`, no dropped key, and
\* for `styles` the Style Extractor's output
NodesWellFormed(in, out) ==
  /\ IsDict(out)
  /\ {"layout", "styles"} \subseteq DOMAIN out.m
  /\ DOMAIN out.m \cap DroppedKeys = {}
  /\ out.m["styles"] = extract_style_info(in)
  /\ out.m["styles"].o = Fresh
  /\ Has(in, "styles") => out.m["styles"] # in.m["styles"]
  /\ NonEmptyList(in, "children") =>
       /\ Len(Kids(out)) = Len(Kids(in))
       /\ \A i \in 1..Len(Kids(in)) :
            NodesWellFormed(Kids(in)[i], Kids(out)[i])

\* C6: for an input tree of mapping Nodes, every node of the output has the
\* keys `layout` and `styles`, has none of the ignore-set keys, and its
\* `styles` is the Style Extractor output, never the raw input `styles`.
C6_EveryNodeWellFormed ==
  (pc = "tree" /\ Returned /\ MappingTree(node)) =>
    NodesWellFormed(node, result)

C6_Witness ==
  /\ pc = "tree" /\ Returned /\ MappingTree(node)
  /\ Len(Kids(node)) >= 2
  /\ \E i \in 1..Len(Kids(node)) :
       /\ DroppedKeys \cup {"styles"} \subseteq DOMAIN Kids(node)[i].m
       /\ "type" \in DOMAIN Kids(result)[i].m

\* C7: when the first entry of a non-empty `fills` is not of type SOLID, no
\* `fill` key is emitted, even when a later entry is a solid fill.
C7_OnlyFirstFill ==
  (/\ pc = "styles" /\ Returned
   /\ HasFirstPaint(node, "fills")
   /\ Get(node.m["fills"].l[1], "type", Null) # Str("SOLID"))
    => ~Has(result, "fill")

C7_Witness ==
  /\ pc = "styles" /\ Returned
  /\ HasFirstPaint(node, "fills")
  /\ Get(node.m["fills"].l[1], "type", Null) = Str("GRADIENT_LINEAR")
  /\ Len(node.m["fills"].l) >= 2
  /\ IsDict(node.m["fills"].l[2]) /\ SolidInRange(node.m["fills"].l[2])
  /\ ~Has(result, "fill")

\* `visible` is true or absent
VisibleTrueOrAbsent(e) ==
  ~Has(e, "visible") \/ e.m["visible"] = Bool(TRUE)

\* `visible` is absent, or holds none of false, null, 0, "", [] and {}
VisibleNotFalsy(e) ==
  \/ ~Has(e, "visible")
  \/ LET v == e.m["visible"]
     IN  /\ v.t # "null"
         /\ v.t = "bool" => v.b
         /\ v.t = "num" => v.n # 0
         /\ v.t = "str" => v.s # ""
         /\ v.t = "list" => v.l # << >>
         /\ v.t = "map" => DOMAIN v.m # {}

\* `styles.effects` is the given entries in order, and is absent when there
\* are none
EffectsAre(kept) ==
  IF Len(kept) = 0 THEN ~Has(result, "effects")
  ELSE /\ Has(result, "effects") /\ IsList(result.m["effects"])
       /\ result.m["effects"].l = kept

\* C8, as the claim states it: `styles.effects` is the subsequence of the
\* entries whose `visible` is true or absent; any other value excludes.
C8_OnlyTrueOrAbsent ==
  (pc = "styles" /\ Returned /\ NonEmptyList(node, "effects")) =>
    EffectsAre(SelectSeq(node.m["effects"].l, VisibleTrueOrAbsent))

\* C8, amended: `styles.effects` is the subsequence, in the original order,
\* of the entries whose `visible` is absent or truthy (anything but false,
\* null, 0, an empty string, sequence or mapping); with no such entry there
\* is no `effects` key.
C8_TruthyOrAbsent ==
  (pc = "styles" /\ Returned /\ NonEmptyList(node, "effects")) =>
    EffectsAre(SelectSeq(node.m["effects"].l, VisibleNotFalsy))

C8_Witness ==
  /\ pc = "styles" /\ Returned /\ NonEmptyList(node, "effects")
  /\ Len(node.m["effects"].l) = 2
  /\ Get(node.m["effects"].l[1], "visible", Null) = Whole(0)
  /\ Get(node.m["effects"].l[2], "visible", Null) = Whole(2)
  /\ Has(result, "effects")
  /\ result.m["effects"].l = <<node.m["effects"].l[2]>>

\* the source value of layout key k, Absent when the Node has none
SourceOf(n, k) ==
  IF k \in BBoxKeys
  THEN IF Has(n, "absoluteBoundingBox")
       THEN Get(n.m["absoluteBoundingBox"], k, Absent)
       ELSE Absent
  ELSE Get(n, k, Absent)

\* C9: extract_layout_info returns a key exactly when its source value is
\* present and not null, with the value unchanged (0 and false are kept);
\* x, y, width and height are read independently of each other; a Node with
\* no bounding box and no layout field gives the empty mapping.
C9_LayoutKeepsNonNull ==
  (pc = "layout" /\ Returned) =>
    /\ DOMAIN result.m \subseteq LayoutKeys
    /\ \A k \in LayoutKeys :
         /\ Has(result, k) <=> SourceOf(node, k).t \notin {"absent", "null"}
         /\ Has(result, k) => result.m[k] = SourceOf(node, k)
    /\ DOMAIN node.m \cap (LayoutKeys \cup {"absoluteBoundingBox"}) = {}
         => result.m = << >>

C9_Witness ==
  /\ pc = "layout" /\ Returned
  /\ Has(node, "absoluteBoundingBox")
  /\ SourceOf(node, "x") = Whole(0)
  /\ SourceOf(node, "y") = Null
  /\ SourceOf(node, "width") = Absent
  /\ DOMAIN result.m = {"x", "height"}

\* C10: a first `fills` entry that is SOLID with channels in 0.0 to 1.0
\* gives a `fill` whose r, g, b are integers in 0..255 nearest to the
\* channel times 255, and whose a is the entry's `opacity`, or 1.0 when it
\* has none; the same for `stroke` from the first `strokes` entry.
C10_ColourRounded ==
  \A key \in {"fills", "strokes"} :
    (/\ pc = "styles" /\ Returned
     /\ HasFirstPaint(node, key) /\ SolidInRange(node.m[key].l[1]))
      => LET out == IF key = "fills" THEN "fill" ELSE "stroke"
         IN  Has(result, out) /\ RgbaOf(result.m[out], node.m[key].l[1])

C10_Witness ==
  /\ pc = "styles" /\ Returned
  /\ HasFirstPaint(node, "strokes") /\ SolidInRange(node.m["strokes"].l[1])
  /\ node.m["strokes"].l[1].m["color"].m["r"] = Num(1, 6)
  /\ ~Has(node.m["strokes"].l[1], "opacity")
  /\ result.m["stroke"].m["r"] = Whole(42)
  /\ result.m["stroke"].m["a"] = Whole(1)

===========================================================================
